---- MODULE Spec2Model ----
(***************************************************************************)
(* Model of parl/remote/job.py: the Job process of the remote fabric.      *)
(* Four activities share the process: the session driver (Job.run on the   *)
(* main thread), the ping responder, the worker-heartbeat responder and    *)
(* the client-heartbeat responder.  They communicate through the flags     *)
(* job_is_alive, worker_is_alive and client_is_alive.  The client, the     *)
(* worker and the master are the environment.                              *)
(***************************************************************************)
EXTENDS Naturals, Integers, Sequences, FiniteSets, TLC

(* ------------------------------ bounds --------------------------------- *)
\* sessions the environment may open before it falls silent
MaxSessions == 2
\* requests the client may send while one session is in ServeCalls
MaxCalls == 2
\* size of the port range bind_to_random_port draws from
MaxPort == 5

(* --------------------------- wire constants ---------------------------- *)
\* tags a client can put on the request endpoint; UNKNOWN stands for every
\* tag the job does not know
Requests == {"SEND_FILE", "INIT_OBJECT", "CALL", "KILLJOB", "UNKNOWN"}
NoMsg == "none"

\* how decoding the arguments, invoking the method and encoding the result
\* of a CALL can end: normally, or with an exception of one of these types
CallOutcomes == {"ok", "AttributeError", "SerializeError",
                 "DeserializeError", "Exception"}

\* how cls(*args, **kwargs) can end
CtorOutcomes == {"ok", "raise"}

Ports == 1..MaxPort

\* ports picked by the binds of __init__ (port numbers are interchangeable,
\* so the four binds of __init__ are given the first four ports)
JobPort == 1
PingPort == 2
WorkerHbPort == 3
FirstClientHbPort == 4

job_address == JobPort
ping_heartbeat_address == PingPort

\* the three heartbeat responders
Responders == {"ping", "worker", "client"}

NoAnnouncement ==
    [tag |-> "none", job_address |-> 0, worker_heartbeat_address |-> 0,
     client_heartbeat_address |-> 0, ping_heartbeat_address |-> 0]

(* ------------------------------- state --------------------------------- *)
VARIABLES
    job_is_alive,      \* self.job_is_alive
    worker_is_alive,   \* self.worker_is_alive: "unset" until the responder sets it
    client_is_alive,   \* self.client_is_alive: "unset" until a responder sets it
    pc,                \* position of the session driver in run()
    obj,               \* obj in run(): 0 = None, n = object of session n
    reqIn,             \* message waiting on the request endpoint
    repState,          \* REP state machine of reply_socket: "recv" or "send"
    ctpc,              \* position of the current client-heartbeat thread
    chbPort,           \* port of the current client-heartbeat socket
    chbOpen,           \* that socket is open
    wtpc,              \* position of the worker-heartbeat thread
    whbOpen,           \* worker-heartbeat socket is open
    ptpc,              \* position of the ping thread
    pingOpen,          \* ping socket is open
    masterAck,         \* the master's reply waits on master_socket
    path_heap,         \* the list objects: object id -> sequence of directories
    sys_path,          \* sys.path: id of a list object
    previous_path,     \* previous_path in run(): id of a list object, 0 = unbound
    envdirs,           \* number of scratch directories made by mkdtemp
    workerMsgs,        \* announcements sent on job_socket
    workerAcks,        \* replies received on job_socket
    masterSent,        \* number of announcements sent on master_socket
    masterLast,        \* the latest of them
    \* ---- history of the run (not read by the program) ----
    prevChbPort,       \* port of the client-heartbeat socket before the last rebind
    chbBinds,          \* number of client-heartbeat endpoints bound so far
    sessionsEnded,     \* number of sessions that have ended
    lastEnd,           \* how the latest of them ended
    resetsSinceEnd,    \* RESET_JOBs sent since that session ended
    lastReq,           \* tag of the last request the driver received
    lastState,         \* driver state that received it
    lastOut,           \* how the user code run for it ended, "none" if none ran
    nReplies,          \* replies sent on the request endpoint since that receive
    lastReply,         \* tag of the latest reply on the request endpoint
    served,            \* requests received in ServeCalls in the current session
    hbOwed,            \* per responder: probes received minus HEARTBEATs sent
    clientFalseBy      \* who last wrote client_is_alive = False in this session

vars == <<job_is_alive, worker_is_alive, client_is_alive, pc, obj, reqIn,
          repState, ctpc, chbPort, chbOpen, wtpc, whbOpen, ptpc, pingOpen,
          masterAck, path_heap, sys_path, previous_path, envdirs, workerMsgs,
          masterSent, masterLast, prevChbPort, chbBinds, sessionsEnded, lastEnd,
          resetsSinceEnd, lastReq, lastState, lastOut, nReplies, lastReply,
          served, hbOwed, workerAcks,
          clientFalseBy>>

flagVars == <<job_is_alive, worker_is_alive, client_is_alive>>
driverVars == <<pc, obj>>
reqVars == <<reqIn, repState>>
ctVars == <<ctpc, chbPort, chbOpen>>
wtVars == <<wtpc, whbOpen>>
ptVars == <<ptpc, pingOpen>>
pathVars == <<path_heap, sys_path, previous_path, envdirs>>
outVars == <<workerMsgs, workerAcks, masterSent, masterLast, masterAck>>
endVars == <<sessionsEnded, lastEnd, resetsSinceEnd, served>>
replyVars == <<lastReq, lastState, lastOut, nReplies, lastReply>>
bindVars == <<prevChbPort, chbBinds>>
histVars == <<bindVars, endVars, replyVars, clientFalseBy>>

(* ------------------------------ helpers -------------------------------- *)
\* ports held by the sockets of this process that are still open
OpenPorts ==
    {JobPort}
    \cup (IF pingOpen THEN {PingPort} ELSE {})
    \cup (IF whbOpen THEN {WorkerHbPort} ELSE {})
    \cup (IF chbOpen THEN {chbPort} ELSE {})

\* InitializedJob as built in _create_sockets
StartupAnnouncement(chb) ==
    [tag |-> "NORMAL",
     job_address |-> job_address,
     worker_heartbeat_address |-> WorkerHbPort,
     client_heartbeat_address |-> chb,
     ping_heartbeat_address |-> ping_heartbeat_address]

\* InitializedJob as built in run, after the rebind; 0 stands for None
ResetAnnouncement(p) ==
    [tag |-> "RESET_JOB",
     job_address |-> job_address,
     worker_heartbeat_address |-> 0,
     client_heartbeat_address |-> p,
     ping_heartbeat_address |-> ping_heartbeat_address]

\* the if/elif chain of the except branch of single_task
ExceptionTag(e) ==
    IF e = "AttributeError" THEN "ATTRIBUTE_EXCEPTION"
    ELSE IF e = "SerializeError" THEN "SERIALIZE_EXCEPTION"
    ELSE IF e = "DeserializeError" THEN "DESERIALIZE_EXCEPTION"
    ELSE "EXCEPTION"

\* CallReplies with the SerializeError branch of the except chain sending
\* nothing
CallReplies_NoSerializeReply(out) ==
    IF out = "ok" THEN <<"NORMAL">>
    ELSE IF out = "SerializeError" THEN <<>>
    ELSE <<ExceptionTag(out)>>

\* replies single_task sends for one CALL, by the outcome of
\* loads_argument / getattr(obj, name)(...) / dumps_return
CallReplies(out) ==
    IF out = "ok" THEN <<"NORMAL">> ELSE <<ExceptionTag(out)>>

(* ------------------------------- Init ---------------------------------- *)
\* the state when Job.__init__ returns: sockets bound, ping and worker
\* threads started, client thread created, announcement acknowledged
Init ==
    /\ job_is_alive = TRUE
    /\ worker_is_alive = "unset"
    /\ client_is_alive = "unset"
    /\ pc = "run_check"
    /\ obj = 0
    /\ reqIn = NoMsg
    /\ repState = "recv"
    /\ ctpc = "created"
    /\ chbPort = FirstClientHbPort
    /\ chbOpen = TRUE
    /\ wtpc = "init"
    /\ whbOpen = TRUE
    /\ ptpc = "check"
    /\ pingOpen = TRUE
    /\ masterAck = FALSE
    /\ path_heap = <<<<>>>>
    /\ sys_path = 1
    /\ previous_path = 0
    /\ envdirs = 0
    /\ workerMsgs = <<StartupAnnouncement(FirstClientHbPort)>>
    /\ workerAcks = 1
    /\ masterSent = 0
    /\ masterLast = NoAnnouncement
    /\ prevChbPort = 0
    /\ chbBinds = 1
    /\ sessionsEnded = 0
    /\ lastEnd = "none"
    /\ resetsSinceEnd = 0
    /\ lastReq = NoMsg
    /\ lastState = "none"
    /\ lastOut = "none"
    /\ nReplies = 0
    /\ lastReply = "none"
    /\ served = 0
    /\ hbOwed = [r \in Responders |-> 0]
    /\ clientFalseBy = "none"

(* ---------------------------- environment ------------------------------ *)
\* the process is gone once run() has returned or raised out of the main thread
Running == pc \notin {"returned", "crashed"}

\* a client puts one request on the request endpoint
ClientSend(m) ==
    /\ Running
    /\ reqIn = NoMsg
    /\ sessionsEnded < MaxSessions
    /\ served < MaxCalls
    /\ reqIn' = m
    /\ UNCHANGED <<hbOwed, flagVars, driverVars, repState, ctVars, wtVars, ptVars,
                   pathVars, outVars, histVars>>

\* the master acknowledges a RESET_JOB
MasterAck ==
    /\ pc = "master_recv"
    /\ ~masterAck
    /\ masterAck' = TRUE
    /\ UNCHANGED <<hbOwed, flagVars, driverVars, reqVars, ctVars, wtVars, ptVars,
                   pathVars, workerMsgs, workerAcks, masterSent, masterLast, histVars>>

(* --------------------------- ping responder ---------------------------- *)
\* while self.job_is_alive: ... socket.close(0)
PingCheck ==
    /\ Running
    /\ ptpc = "check"
    /\ IF job_is_alive
         THEN /\ ptpc' = "recv"
              /\ UNCHANGED pingOpen
         ELSE /\ ptpc' = "done"
              /\ pingOpen' = FALSE
    /\ UNCHANGED <<hbOwed, flagVars, driverVars, reqVars, ctVars, wtVars, pathVars,
                   outVars, histVars>>

\* message = socket.recv_multipart(): no deadline, returns when a probe
\* arrives
PingRecv ==
    /\ Running
    /\ ptpc = "recv"
    /\ ptpc' = "send"
    /\ hbOwed' = [hbOwed EXCEPT !["ping"] = @ + 1]
    /\ UNCHANGED <<flagVars, driverVars, reqVars, ctVars, wtVars, pingOpen,
                   pathVars, outVars, histVars>>

\* socket.send_multipart([HEARTBEAT_TAG])
PingReply ==
    /\ Running
    /\ ptpc = "send"
    /\ ptpc' = "check"
    /\ hbOwed' = [hbOwed EXCEPT !["ping"] = @ - 1]
    /\ UNCHANGED <<flagVars, driverVars, reqVars, ctVars, wtVars, pingOpen,
                   pathVars, outVars, histVars>>

(* ---------------------- worker-heartbeat responder --------------------- *)
\* self.worker_is_alive = True
WorkerHbInit ==
    /\ Running
    /\ wtpc = "init"
    /\ worker_is_alive' = "true"
    /\ wtpc' = "check"
    /\ UNCHANGED <<hbOwed, job_is_alive, client_is_alive, driverVars, reqVars, ctVars,
                   whbOpen, ptVars, pathVars, outVars, histVars>>

\* while self.worker_is_alive and self.job_is_alive: ... socket.close(0)
WorkerHbCheck ==
    /\ Running
    /\ wtpc = "check"
    /\ IF worker_is_alive = "true" /\ job_is_alive
         THEN /\ wtpc' = "recv"
              /\ UNCHANGED whbOpen
         ELSE /\ wtpc' = "done"
              /\ whbOpen' = FALSE
    /\ UNCHANGED <<hbOwed, flagVars, driverVars, reqVars, ctVars, ptVars, pathVars,
                   outVars, histVars>>

\* message = socket.recv_multipart(): a probe of the worker arrives before
\* the deadline
WorkerHbRecv ==
    /\ Running
    /\ wtpc = "recv"
    /\ wtpc' = "send"
    /\ hbOwed' = [hbOwed EXCEPT !["worker"] = @ + 1]
    /\ UNCHANGED <<flagVars, driverVars, reqVars, ctVars, whbOpen, ptVars,
                   pathVars, outVars, histVars>>

\* socket.send_multipart([HEARTBEAT_TAG])
WorkerHbReply ==
    /\ Running
    /\ wtpc = "send"
    /\ wtpc' = "check"
    /\ hbOwed' = [hbOwed EXCEPT !["worker"] = @ - 1]
    /\ UNCHANGED <<flagVars, driverVars, reqVars, ctVars, whbOpen, ptVars,
                   pathVars, outVars, histVars>>

\* zmq.error.Again: worker_is_alive = False; job_is_alive = False
WorkerHbTimeout ==
    /\ Running
    /\ wtpc = "recv"
    /\ worker_is_alive' = "false"
    /\ job_is_alive' = FALSE
    /\ wtpc' = "check"
    /\ UNCHANGED <<hbOwed, client_is_alive, driverVars, reqVars, ctVars, whbOpen,
                   ptVars, pathVars, outVars, histVars>>

(* ---------------------- client-heartbeat responder --------------------- *)
\* setsockopt(RCVTIMEO); self.client_is_alive = True
ClientHbInit ==
    /\ Running
    /\ ctpc = "init"
    /\ client_is_alive' = "true"
    /\ clientFalseBy' = "none"
    /\ ctpc' = "check"
    /\ UNCHANGED <<hbOwed, job_is_alive, worker_is_alive, driverVars, reqVars, chbPort,
                   chbOpen, wtVars, ptVars, pathVars, outVars, bindVars,
                   endVars, replyVars>>

\* while self.client_is_alive: ... socket.close(0)
ClientHbCheck ==
    /\ Running
    /\ ctpc = "check"
    /\ IF client_is_alive = "true"
         THEN /\ ctpc' = "recv"
              /\ UNCHANGED chbOpen
         ELSE /\ ctpc' = "done"
              /\ chbOpen' = FALSE
    /\ UNCHANGED <<hbOwed, flagVars, driverVars, reqVars, chbPort, wtVars, ptVars,
                   pathVars, outVars, histVars>>

\* message = socket.recv_multipart(): a probe of the client arrives before
\* the deadline
ClientHbRecv ==
    /\ Running
    /\ ctpc = "recv"
    /\ ctpc' = "send"
    /\ hbOwed' = [hbOwed EXCEPT !["client"] = @ + 1]
    /\ UNCHANGED <<flagVars, driverVars, reqVars, chbPort, chbOpen, wtVars,
                   ptVars, pathVars, outVars, histVars>>

\* socket.send_multipart([HEARTBEAT_TAG])
ClientHbReply ==
    /\ Running
    /\ ctpc = "send"
    /\ ctpc' = "check"
    /\ hbOwed' = [hbOwed EXCEPT !["client"] = @ - 1]
    /\ UNCHANGED <<flagVars, driverVars, reqVars, chbPort, chbOpen, wtVars,
                   ptVars, pathVars, outVars, histVars>>

\* ClientHbTimeout that sends a HEARTBEAT although nothing was received
ClientHbTimeout_SendsHeartbeat ==
    /\ Running
    /\ ctpc = "recv"
    /\ client_is_alive' = "false"
    /\ clientFalseBy' = "timeout"
    /\ ctpc' = "check"
    /\ hbOwed' = [hbOwed EXCEPT !["client"] = @ - 1]
    /\ UNCHANGED <<job_is_alive, worker_is_alive, driverVars, reqVars, chbPort,
                   chbOpen, wtVars, ptVars, pathVars, outVars, bindVars,
                   endVars, replyVars>>

\* zmq.error.Again: self.client_is_alive = False
ClientHbTimeout ==
    /\ Running
    /\ ctpc = "recv"
    /\ client_is_alive' = "false"
    /\ clientFalseBy' = "timeout"
    /\ ctpc' = "check"
    /\ UNCHANGED <<hbOwed, job_is_alive, worker_is_alive, driverVars, reqVars, chbPort,
                   chbOpen, wtVars, ptVars, pathVars, outVars, bindVars,
                   endVars, replyVars>>

(* --------------------------- session driver ---------------------------- *)
\* while self.job_is_alive:  (top of run)
RunCheck ==
    /\ pc = "run_check"
    /\ pc' = IF job_is_alive THEN "wf_recv" ELSE "returned"
    /\ UNCHANGED <<hbOwed, flagVars, obj, reqVars, ctVars, wtVars, ptVars,
                   pathVars, outVars, histVars>>

\* wait_for_files gets SEND_FILE: unpack, reply NORMAL; then run() keeps
\* previous_path, appends envdir to sys.path and starts the client thread
WaitForFilesOk ==
    /\ pc = "wf_recv"
    /\ repState = "recv"
    /\ reqIn = "SEND_FILE"
    /\ reqIn' = NoMsg
    /\ repState' = "recv"
    /\ envdirs' = envdirs + 1
    /\ previous_path' = sys_path
    /\ path_heap' = [path_heap EXCEPT ![sys_path] = Append(@, envdirs + 1)]
    /\ ctpc' = "init"
    /\ pc' = "wc_recv"
    /\ lastReq' = reqIn
    /\ lastState' = "WaitForFiles"
    /\ lastOut' = "none"
    /\ nReplies' = 1
    /\ lastReply' = "NORMAL"
    /\ clientFalseBy' = IF client_is_alive = "false" THEN "stale" ELSE clientFalseBy
    /\ UNCHANGED <<hbOwed, flagVars, obj, chbPort, chbOpen, wtVars, ptVars,
                   sys_path, outVars, bindVars, endVars>>

\* wait_for_files gets any other tag: raise NotImplementedError, which no
\* handler in run() catches (the call is outside the try block)
WaitForFilesViolation ==
    /\ pc = "wf_recv"
    /\ repState = "recv"
    /\ reqIn # NoMsg
    /\ reqIn # "SEND_FILE"
    /\ reqIn' = NoMsg
    /\ repState' = "send"
    /\ pc' = "crashed"
    /\ lastReq' = reqIn
    /\ lastState' = "WaitForFiles"
    /\ lastOut' = "none"
    /\ nReplies' = 0
    /\ UNCHANGED lastReply
    /\ sessionsEnded' = sessionsEnded + 1
    /\ lastEnd' = "wf_violation"
    /\ resetsSinceEnd' = 0
    /\ served' = 0
    /\ UNCHANGED <<hbOwed, flagVars, obj, ctVars, wtVars, ptVars, pathVars,
                   outVars, bindVars, clientFalseBy>>

\* wait_for_files receives on a REP socket that still owes a reply:
\* recv_multipart raises ZMQError, uncaught
WaitForFilesBadState ==
    /\ pc = "wf_recv"
    /\ repState = "send"
    /\ pc' = "crashed"
    /\ UNCHANGED <<hbOwed, flagVars, obj, reqVars, ctVars, wtVars, ptVars,
                   pathVars, outVars, histVars>>

\* wait_for_connection, then the assert in run(); c is how the
\* constructor ends
WaitForConnection(c) ==
    /\ pc = "wc_recv"
    /\ reqIn # NoMsg
    /\ reqIn' = NoMsg
    /\ repState' = "recv"
    /\ lastReq' = reqIn
    /\ lastState' = "WaitForObject"
    /\ nReplies' = 1
    /\ IF reqIn = "INIT_OBJECT" /\ c = "ok"
         THEN \* obj = cls(*args, **kwargs); reply NORMAL; enter single_task
              /\ obj' = sessionsEnded + 1
              /\ lastOut' = c
              /\ lastReply' = "NORMAL"
              /\ pc' = "st_check"
              /\ UNCHANGED <<client_is_alive, clientFalseBy, endVars>>
         ELSE IF reqIn = "INIT_OBJECT"
         THEN \* constructor raised: reply EXCEPTION, client_is_alive = False,
              \* return None; the assert fails and run() catches it
              /\ obj' = 0
              /\ lastOut' = c
              /\ lastReply' = "EXCEPTION"
              /\ client_is_alive' = "false"
              /\ clientFalseBy' = "ctor"
              /\ pc' = "reset"
              /\ sessionsEnded' = sessionsEnded + 1
              /\ lastEnd' = "ctor_failure"
              /\ resetsSinceEnd' = 0
              /\ served' = 0
         ELSE \* unknown tag: reply EXCEPTION, raise NotImplementedError
              /\ c = "ok"
              /\ lastOut' = "none"
              /\ lastReply' = "EXCEPTION"
              /\ pc' = "reset"
              /\ sessionsEnded' = sessionsEnded + 1
              /\ lastEnd' = "wc_violation"
              /\ resetsSinceEnd' = 0
              /\ served' = 0
              /\ UNCHANGED <<obj, client_is_alive, clientFalseBy>>
    /\ UNCHANGED <<hbOwed, job_is_alive, worker_is_alive, ctVars, wtVars, ptVars,
                   pathVars, outVars, bindVars>>

\* how the loop test of single_task leaves the session, when it does
LoopExitReason ==
    IF ~job_is_alive THEN "worker_loss"
    ELSE IF client_is_alive = "unset" THEN "flag_unset"
    ELSE clientFalseBy

\* while self.job_is_alive and self.client_is_alive:
\* (reading client_is_alive before any responder has set it raises
\*  AttributeError, which run() catches)
SingleTaskCheck ==
    /\ pc = "st_check"
    /\ IF job_is_alive /\ client_is_alive = "true"
         THEN /\ pc' = "st_recv"
              /\ UNCHANGED endVars
         ELSE /\ pc' = "reset"
              /\ sessionsEnded' = sessionsEnded + 1
              /\ lastEnd' = LoopExitReason
              /\ resetsSinceEnd' = 0
              /\ served' = 0
    /\ UNCHANGED <<hbOwed, flagVars, obj, reqVars, ctVars, wtVars, ptVars, pathVars,
                   outVars, bindVars, replyVars, clientFalseBy>>

\* message = self.reply_socket.recv_multipart() in single_task, and the
\* dispatch on its tag
SingleTaskRecv ==
    /\ pc = "st_recv"
    /\ reqIn # NoMsg
    /\ reqIn' = NoMsg
    /\ lastReq' = reqIn
    /\ lastState' = "ServeCalls"
    /\ lastOut' = "none"
    /\ IF reqIn = "CALL"
         THEN \* enter the try block: decode, invoke, encode
              /\ pc' = "st_call"
              /\ repState' = "send"
              /\ nReplies' = 0
              /\ served' = served + 1
              /\ UNCHANGED <<client_is_alive, clientFalseBy, lastReply,
                             sessionsEnded, lastEnd, resetsSinceEnd>>
         ELSE IF reqIn = "KILLJOB"
         THEN \* reply NORMAL; client_is_alive = False
              /\ repState' = "recv"
              /\ nReplies' = 1
              /\ lastReply' = "NORMAL"
              /\ client_is_alive' = "false"
              /\ clientFalseBy' = "KILLJOB"
              /\ pc' = "st_check"
              /\ served' = served + 1
              /\ UNCHANGED <<sessionsEnded, lastEnd, resetsSinceEnd>>
         ELSE \* raise NotImplementedError: no reply
              /\ repState' = "send"
              /\ nReplies' = 0
              /\ pc' = "reset"
              /\ sessionsEnded' = sessionsEnded + 1
              /\ lastEnd' = "st_violation"
              /\ resetsSinceEnd' = 0
              /\ served' = 0
              /\ UNCHANGED <<client_is_alive, clientFalseBy, lastReply>>
    /\ UNCHANGED <<hbOwed, job_is_alive, worker_is_alive, obj, ctVars, wtVars, ptVars,
                   pathVars, outVars, bindVars>>

\* SingleTaskCall with the except branch leaving client_is_alive alone
SingleTaskCall_KeepsClientAlive(out) ==
    /\ pc = "st_call"
    /\ pc' = "st_check"
    /\ lastOut' = out
    /\ nReplies' = nReplies + Len(CallReplies(out))
    /\ lastReply' = IF Len(CallReplies(out)) > 0
                      THEN CallReplies(out)[Len(CallReplies(out))]
                      ELSE lastReply
    /\ repState' = IF Len(CallReplies(out)) > 0 THEN "recv" ELSE "send"
    /\ UNCHANGED <<client_is_alive, clientFalseBy>>
    /\ UNCHANGED <<hbOwed, job_is_alive, worker_is_alive, obj, reqIn, ctVars, wtVars,
                   ptVars, pathVars, outVars, bindVars, endVars, lastReq,
                   lastState>>

\* the CALL ends as out: NORMAL with the result, or the except branch
\* (client_is_alive = False, then the reply for the exception's type)
SingleTaskCall(out) ==
    /\ pc = "st_call"
    /\ pc' = "st_check"
    /\ lastOut' = out
    /\ nReplies' = nReplies + Len(CallReplies(out))
    /\ lastReply' = IF Len(CallReplies(out)) > 0
                      THEN CallReplies(out)[Len(CallReplies(out))]
                      ELSE lastReply
    /\ repState' = IF Len(CallReplies(out)) > 0 THEN "recv" ELSE "send"
    /\ IF out = "ok"
         THEN UNCHANGED <<client_is_alive, clientFalseBy>>
         ELSE /\ client_is_alive' = "false"
              /\ clientFalseBy' = "call_exception"
    /\ UNCHANGED <<hbOwed, job_is_alive, worker_is_alive, obj, reqIn, ctVars, wtVars,
                   ptVars, pathVars, outVars, bindVars, endVars, lastReq,
                   lastState>>

\* sys.path = previous_path
RestorePath ==
    /\ pc = "reset"
    /\ sys_path' = previous_path
    /\ pc' = "join"
    /\ UNCHANGED <<hbOwed, flagVars, obj, reqVars, ctVars, wtVars, ptVars,
                   path_heap, previous_path, envdirs, outVars, histVars>>

\* ResetAnnounce that also re-arms job_is_alive
ResetAnnounce_RevivesJob ==
    /\ pc = "join"
    /\ ctpc = "done"
    /\ \E p \in Ports \ OpenPorts :
          /\ chbPort' = p
          /\ masterLast' = ResetAnnouncement(p)
    /\ prevChbPort' = chbPort
    /\ chbBinds' = chbBinds + 1
    /\ chbOpen' = TRUE
    /\ ctpc' = "created"
    /\ masterSent' = masterSent + 1
    /\ resetsSinceEnd' = resetsSinceEnd + 1
    /\ masterAck' = FALSE
    /\ pc' = "master_recv"
    /\ job_is_alive' = TRUE
    /\ UNCHANGED <<hbOwed, worker_is_alive, client_is_alive, obj, reqVars, wtVars,
                   ptVars, pathVars, workerMsgs, workerAcks, sessionsEnded, lastEnd, served,
                   replyVars, clientFalseBy>>

\* ResetAnnounce that announces the address of the endpoint it replaced
ResetAnnounce_StaleAddress ==
    /\ pc = "join"
    /\ ctpc = "done"
    /\ \E p \in Ports \ OpenPorts :
          /\ chbPort' = p
          /\ masterLast' = ResetAnnouncement(chbPort)
    /\ prevChbPort' = chbPort
    /\ chbBinds' = chbBinds + 1
    /\ chbOpen' = TRUE
    /\ ctpc' = "created"
    /\ masterSent' = masterSent + 1
    /\ resetsSinceEnd' = resetsSinceEnd + 1
    /\ masterAck' = FALSE
    /\ pc' = "master_recv"
    /\ UNCHANGED <<hbOwed, flagVars, obj, reqVars, wtVars, ptVars, pathVars,
                   workerMsgs, workerAcks, sessionsEnded, lastEnd, served, replyVars,
                   clientFalseBy>>

\* ResetAnnounce that announces the reset on job_socket as well
ResetAnnounce_AlsoTellsWorker ==
    /\ pc = "join"
    /\ ctpc = "done"
    /\ \E p \in Ports \ OpenPorts :
          /\ chbPort' = p
          /\ masterLast' = ResetAnnouncement(p)
          /\ workerMsgs' = Append(workerMsgs, ResetAnnouncement(p))
    /\ workerAcks' = workerAcks + 1
    /\ prevChbPort' = chbPort
    /\ chbBinds' = chbBinds + 1
    /\ chbOpen' = TRUE
    /\ ctpc' = "created"
    /\ masterSent' = masterSent + 1
    /\ resetsSinceEnd' = resetsSinceEnd + 1
    /\ masterAck' = FALSE
    /\ pc' = "master_recv"
    /\ UNCHANGED <<hbOwed, flagVars, obj, reqVars, wtVars, ptVars, pathVars,
                   sessionsEnded, lastEnd, served, replyVars, clientFalseBy>>

\* ResetAnnounce that does not wait for the client-heartbeat thread
ResetAnnounce_NoJoin ==
    /\ pc = "join"
    /\ \E p \in Ports \ OpenPorts :
          /\ chbPort' = p
          /\ masterLast' = ResetAnnouncement(p)
    /\ prevChbPort' = chbPort
    /\ chbBinds' = chbBinds + 1
    /\ chbOpen' = TRUE
    /\ ctpc' = "created"
    /\ masterSent' = masterSent + 1
    /\ resetsSinceEnd' = resetsSinceEnd + 1
    /\ masterAck' = FALSE
    /\ pc' = "master_recv"
    /\ hbOwed' = [hbOwed EXCEPT !["client"] = 0]
    /\ UNCHANGED <<flagVars, obj, reqVars, wtVars, ptVars, pathVars,
                   workerMsgs, workerAcks, sessionsEnded, lastEnd, served,
                   replyVars, clientFalseBy>>

\* self.client_thread.join() returns; bind a new client-heartbeat endpoint,
\* create its thread, send RESET_JOB on master_socket
ResetAnnounce ==
    /\ pc = "join"
    /\ ctpc = "done"
    /\ \E p \in Ports \ OpenPorts :
          /\ chbPort' = p
          /\ masterLast' = ResetAnnouncement(p)
    /\ prevChbPort' = chbPort
    /\ chbBinds' = chbBinds + 1
    /\ chbOpen' = TRUE
    /\ ctpc' = "created"
    /\ masterSent' = masterSent + 1
    /\ resetsSinceEnd' = resetsSinceEnd + 1
    /\ masterAck' = FALSE
    /\ pc' = "master_recv"
    /\ UNCHANGED <<hbOwed, flagVars, obj, reqVars, wtVars, ptVars, pathVars,
                   workerMsgs, workerAcks, sessionsEnded, lastEnd, served, replyVars,
                   clientFalseBy>>

\* self.master_socket.recv_multipart()
ResetAcked ==
    /\ pc = "master_recv"
    /\ masterAck
    /\ masterAck' = FALSE
    /\ pc' = "run_check"
    /\ UNCHANGED <<hbOwed, flagVars, obj, reqVars, ctVars, wtVars, ptVars, pathVars,
                   workerMsgs, workerAcks, masterSent, masterLast, histVars>>

(* --------------------------- specification ----------------------------- *)
Driver ==
    \/ RunCheck
    \/ WaitForFilesOk
    \/ WaitForFilesViolation
    \/ WaitForFilesBadState
    \/ \E c \in CtorOutcomes : WaitForConnection(c)
    \/ SingleTaskCheck
    \/ SingleTaskRecv
    \/ \E out \in CallOutcomes : SingleTaskCall(out)
    \/ RestorePath
    \/ ResetAnnounce
    \/ ResetAcked

PingResponder == PingCheck \/ PingRecv \/ PingReply

WorkerResponder ==
    \/ WorkerHbInit
    \/ WorkerHbCheck
    \/ WorkerHbRecv
    \/ WorkerHbReply
    \/ WorkerHbTimeout

ClientResponder ==
    \/ ClientHbInit
    \/ ClientHbCheck
    \/ ClientHbRecv
    \/ ClientHbReply
    \/ ClientHbTimeout

Environment ==
    \/ \E m \in Requests : ClientSend(m)
    \/ MasterAck

Next ==
    \/ Driver
    \/ PingResponder
    \/ WorkerResponder
    \/ ClientResponder
    \/ Environment

Spec == Init /\ [][Next]_vars

\* the threads of the process are scheduled and receive deadlines expire;
\* the environment owes nothing: no request, no ping (the ping endpoint
\* has no deadline), no acknowledgement of the master
FairSpec ==
    /\ Spec
    /\ WF_vars(Driver)
    /\ WF_vars(PingCheck \/ PingReply)
    /\ WF_vars(WorkerResponder)
    /\ WF_vars(ClientResponder)


(* ------------------------------- claims -------------------------------- *)
\* the driver is between sessions: the reset of the latest session is over
\* (or the process is gone)
BetweenSessions ==
    pc \in {"master_recv", "run_check", "wf_recv", "returned", "crashed"}

\* the latest request was a CALL whose user code raised
FailedCall ==
    lastReq = "CALL" /\ lastState = "ServeCalls" /\ lastOut \notin {"ok", "none"}

CallExceptionTags == {"ATTRIBUTE_EXCEPTION", "SERIALIZE_EXCEPTION",
                      "DESERIALIZE_EXCEPTION", "EXCEPTION"}

\* C1: client death leads to a reset.  When the driver waits in ServeCalls
\* for the next request and the client-heartbeat responder has timed out
\* and exited (the client sends no probe any more), then, unless a further
\* request arrives or the worker is lost, the driver eventually sends
\* RESET_JOB to the master, carrying the address of the client-heartbeat
\* endpoint just bound.
C1_ClientDeathLeadsToReset ==
    (pc = "st_recv" /\ reqIn = NoMsg /\ ctpc = "done" /\ clientFalseBy = "timeout")
        ~> \/ reqIn # NoMsg
           \/ ~job_is_alive
           \/ /\ pc = "master_recv"
              /\ masterLast.tag = "RESET_JOB"
              /\ masterLast.client_heartbeat_address = chbPort

\* C2: worker death terminates the job.  Once job_is_alive is false the
\* driver eventually leaves run(), whatever state it is in and without any
\* further message from the client or the master.
C2_WorkerDeathTerminates ==
    (~job_is_alive) ~> (pc \in {"returned", "crashed"})

\* C3: no RESET_JOB after worker loss.  No step taken with job_is_alive
\* false sends a RESET_JOB to the master.
C3_NoResetAfterWorkerLoss ==
    [][~job_is_alive => masterSent' = masterSent]_vars

\* C4: after a session has ended for any reason other than worker loss and
\* the driver is between sessions again, exactly one RESET_JOB has been sent
\* for that session, and the client-heartbeat address in it differs from the
\* address of the session that ended.
C4_OneResetPerSessionEnd ==
    (BetweenSessions /\ sessionsEnded > 0 /\ lastEnd # "worker_loss")
        => /\ resetsSinceEnd = 1
           /\ masterLast.tag = "RESET_JOB"
           /\ masterLast.client_heartbeat_address # prevChbPort

\* C5: a protocol violation does not terminate the job.  After a first
\* message with a tag other than SEND_FILE the run loop is still running
\* (the session failed, the job resets); only worker loss ends the loop.
C5_FirstMessageViolationResets ==
    (lastEnd = "wf_violation") => (Running \/ ~job_is_alive)

\* C6: every CALL received in ServeCalls is answered exactly once before the
\* driver receives again: while the call runs no reply has been sent, and
\* from its end until the next receive exactly one reply has been sent,
\* NORMAL when the call succeeded and one of the four exception tags when
\* it raised.
C6_CallRepliedOnce ==
    (lastReq = "CALL" /\ lastState = "ServeCalls")
        => \/ pc = "st_call" /\ nReplies = 0
           \/ /\ pc # "st_call"
              /\ nReplies = 1
              /\ lastOut = "ok" => lastReply = "NORMAL"
              /\ lastOut # "ok" => lastReply \in CallExceptionTags

\* a second CALL of a session has raised SerializeError and has been answered
C6_Witness ==
    /\ lastReq = "CALL"
    /\ lastState = "ServeCalls"
    /\ lastOut = "SerializeError"
    /\ served = 2
    /\ pc = "st_check"
    /\ lastReply = "SERIALIZE_EXCEPTION"

\* C7: KILLJOB resets the job into a state equivalent to a cold start.  A
\* KILLJOB received in ServeCalls is answered NORMAL; once the reset is over
\* exactly one RESET_JOB has been sent for that session, with the address of
\* the endpoint just bound; and when the following session has had its
\* SEND_FILE and INIT_OBJECT answered NORMAL and enters ServeCalls with the
\* worker and the client alive, the loop test passes, so that its first CALL
\* is received and answered as on a fresh job.
C7_KillThenColdStart ==
    /\ (lastReq = "KILLJOB" /\ lastState = "ServeCalls")
          => (nReplies = 1 /\ lastReply = "NORMAL")
    /\ (lastEnd = "KILLJOB" /\ pc \notin {"reset", "join"})
          => /\ resetsSinceEnd = 1
             /\ masterLast.tag = "RESET_JOB"
             /\ masterLast.client_heartbeat_address = chbPort
    /\ (lastEnd = "KILLJOB" /\ pc = "st_check" /\ served = 0
          /\ job_is_alive /\ clientFalseBy # "timeout")
          => client_is_alive = "true"

\* C8: a failing CALL ends the session and resets the job.  From the moment
\* a CALL has raised until the driver receives again: client_is_alive is
\* false, exactly one reply was sent and its tag matches the exception, and
\* the driver is not receiving or executing in ServeCalls; and the driver
\* goes on to send the RESET_JOB of that session to the master (it then
\* waits for the master's acknowledgement).
C8_FailingCallResets ==
    /\ [](FailedCall =>
            /\ client_is_alive = "false"
            /\ nReplies = 1
            /\ lastOut = "AttributeError" => lastReply = "ATTRIBUTE_EXCEPTION"
            /\ lastOut = "DeserializeError" => lastReply = "DESERIALIZE_EXCEPTION"
            /\ lastOut = "SerializeError" => lastReply = "SERIALIZE_EXCEPTION"
            /\ lastOut = "Exception" => lastReply = "EXCEPTION"
            /\ pc \notin {"st_recv", "st_call"})
    /\ (FailedCall /\ pc = "st_check")
          ~> (FailedCall /\ pc = "master_recv" /\ resetsSinceEnd = 1)

\* a CALL raised AttributeError, the session ended on it and its RESET_JOB
\* went out
C8_Witness ==
    /\ FailedCall
    /\ lastOut = "AttributeError"
    /\ lastEnd = "call_exception"
    /\ resetsSinceEnd = 1
    /\ pc = "master_recv"

\* C9: job_is_alive is true at construction and, once false, no step of any
\* activity makes it true again.
C9_JobAliveMonotone ==
    /\ job_is_alive = TRUE
    /\ [][~job_is_alive => ~job_is_alive']_vars

\* the worker was lost, and the driver went through a reset before it left
C9_Witness ==
    /\ ~job_is_alive
    /\ lastEnd = "worker_loss"
    /\ pc = "returned"

\* C10: every RESET_JOB carries the address of the client-heartbeat endpoint
\* bound during that reset (one bind per announcement, and the announced
\* address is that of the current endpoint), and the ping and request
\* addresses of every announcement are those bound at startup.
C10_RebindOnReset ==
    /\ chbBinds = masterSent + 1
    /\ Len(workerMsgs) = 1
    /\ workerMsgs[1].job_address = JobPort
    /\ workerMsgs[1].ping_heartbeat_address = PingPort
    /\ masterSent > 0 =>
          /\ masterLast.tag = "RESET_JOB"
          /\ masterLast.client_heartbeat_address = chbPort
          /\ masterLast.ping_heartbeat_address = workerMsgs[1].ping_heartbeat_address
          /\ masterLast.job_address = workerMsgs[1].job_address

\* two resets have been announced, the second on another port than the first
C10_Witness ==
    /\ masterSent = 2
    /\ chbPort # prevChbPort
    /\ pc = "wf_recv"

\* C11: the worker channel carries exactly the startup announcement and its
\* acknowledgement, whatever number of sessions and resets follow.
C11_OneStartupAnnouncement ==
    /\ workerMsgs = <<StartupAnnouncement(FirstClientHbPort)>>
    /\ workerAcks = 1

\* two sessions have been reset and announced to the master
C11_Witness ==
    /\ masterSent = 2
    /\ sessionsEnded = 2
    /\ pc = "run_check"
    /\ Len(workerMsgs) = 1

\* C12: client_is_alive = false stops call processing.  While
\* client_is_alive is false the driver, waiting in ServeCalls, does not take
\* a further CALL into the try block that runs the user's method.
C12_NoCallAfterClientFalse ==
    [][(client_is_alive = "false" /\ pc = "st_recv") => pc' # "st_call"]_vars

\* C13: job_is_alive = false shuts everything down.  After job_is_alive has
\* become false, eventually the process is gone or the three responders have
\* left their loops and closed their endpoints.
C13_JobDeadShutsDown ==
    (~job_is_alive)
        ~> \/ ~Running
           \/ /\ ptpc = "done" /\ ~pingOpen
              /\ wtpc = "done" /\ ~whbOpen
              /\ ctpc = "done" /\ ~chbOpen

\* C14: reset restores the module search path.  Once the restore step of a
\* session has run, and until the next session adds its directory, sys.path
\* holds no scratch directory (it is the path the job started with).
C14_ResetRestoresPath ==
    (pc \in {"join", "master_recv", "run_check", "wf_recv", "returned"})
        => path_heap[sys_path] = <<>>

\* C15: the wait for the client-heartbeat responder always finishes.  When
\* the driver waits in join(), the responder has exited or client_is_alive
\* is false.
C15_JoinFinishes ==
    (pc = "join") => (ctpc = "done" \/ client_is_alive = "false")

\* C16: once the driver has set client_is_alive to false in a session
\* (constructor failure, CALL exception, KILLJOB), no step sets it back to
\* true before the reset of that session is over.
C16_DriverFalseStays ==
    [][(/\ client_is_alive = "false"
        /\ clientFalseBy \in {"ctor", "call_exception", "KILLJOB"}
        /\ pc \in {"st_check", "reset", "join"})
          => client_is_alive' # "true"]_vars

\* C17: RESET_JOB comes strictly after the session's teardown.  A step that
\* sends RESET_JOB starts with the client-heartbeat responder exited and its
\* endpoint closed, the driver past the path restoration and waiting in
\* join() (so no CALL is being processed).
C17_ResetAfterTeardown ==
    [][(masterSent' # masterSent)
          => /\ ctpc = "done"
             /\ ~chbOpen
             /\ hbOwed["client"] = 0
             /\ pc = "join"
             /\ masterSent' = masterSent + 1]_vars

\* a session ended by a client-heartbeat timeout has been announced
C17_Witness ==
    /\ pc = "master_recv"
    /\ lastEnd = "timeout"
    /\ masterSent = 1
    /\ ctpc = "created"
    /\ chbOpen

\* the latest request was an INIT_OBJECT whose constructor raised
CtorFailed ==
    lastReq = "INIT_OBJECT" /\ lastState = "WaitForObject" /\ lastOut = "raise"

\* C18: constructor failure resets the session.  The step in which the
\* constructor raises sets client_is_alive to false and leaves job_is_alive
\* alone; from then until the next receive exactly one reply, EXCEPTION, has
\* been sent and the driver is not in ServeCalls; and, unless the worker is
\* lost, the driver goes on to send the RESET_JOB of that session.
C18_CtorFailureResets ==
    /\ [][(pc = "wc_recv" /\ lastOut' = "raise")
            => /\ client_is_alive' = "false"
               /\ job_is_alive' = job_is_alive]_vars
    /\ [](CtorFailed =>
            /\ nReplies = 1
            /\ lastReply = "EXCEPTION"
            /\ obj = 0
            /\ pc \notin {"st_check", "st_recv", "st_call"})
    /\ (CtorFailed /\ pc = "reset")
          ~> \/ CtorFailed /\ pc = "master_recv" /\ resetsSinceEnd = 1
             \/ ~job_is_alive

\* C19: heartbeat responders keep strict request/reply pairing and close on
\* exit.  A responder owes a HEARTBEAT exactly while it is between its
\* receive and its send (never a send that no receive precedes), and a
\* responder is out of its loop exactly when its endpoint is closed.
C19_ResponderPairing ==
    /\ \A r \in Responders : hbOwed[r] \in {0, 1}
    /\ hbOwed["ping"] = 1 <=> ptpc = "send"
    /\ hbOwed["worker"] = 1 <=> wtpc = "send"
    /\ hbOwed["client"] = 1 <=> ctpc = "send"
    /\ ptpc = "done" <=> ~pingOpen
    /\ wtpc = "done" <=> ~whbOpen
    /\ ctpc = "done" <=> ~chbOpen

\* the worker responder timed out and closed, the ping responder closed, the
\* client responder has just received a probe
C19_Witness ==
    /\ wtpc = "done" /\ ~whbOpen
    /\ ptpc = "done" /\ ~pingOpen
    /\ ctpc = "send" /\ hbOwed["client"] = 1

\* C20: a session whose object was constructed enters ServeCalls with
\* client_is_alive true: at the first loop test of single_task, with the
\* worker alive and no client-heartbeat timeout, the flag is true.
C20_ServeCallsEntersAlive ==
    (/\ pc = "st_check"
     /\ lastState = "WaitForObject"
     /\ job_is_alive
     /\ clientFalseBy # "timeout")
        => client_is_alive = "true"

\* C21: the request endpoint strictly alternates receive and send.  Whenever
\* the driver is about to receive on the request endpoint (in WaitForFiles,
\* WaitForObject or ServeCalls) after an earlier receive, exactly one reply
\* has been sent since that receive and the endpoint is ready to receive.
C21_RequestEndpointAlternates ==
    (pc \in {"wf_recv", "wc_recv", "st_recv"} /\ lastReq # NoMsg)
        => (nReplies = 1 /\ repState = "recv")

====
